---- MODULE Spec2Model ----
(***************************************************************************)
(* Regression metrics of MONAI (monai/metrics/regression.py) and their     *)
(* iteration adapters (monai/handlers/regression_metrics.py).              *)
(*                                                                         *)
(* Tensors are non-empty and real-valued (spec section 3): a tensor is a   *)
(* shape and its elements in row-major order.  Arithmetic is exact: a      *)
(* finite value is a sum of rational multiples of square roots of          *)
(* square-free naturals (the closure of the rationals under the sqrt of    *)
(* RMSE and the sums of the reductions), a finite PSNR is kept as the      *)
(* ratio whose decibel value it is.                                        *)
(***************************************************************************)
EXTENDS Integers, Sequences, FiniteSets, Bags, TLC

\* ------------------------------------------------------------------ bounds
MaxRank == 4
MaxNumel == 4
MaxIters == 2
MaxOutputNumel == 2

Elems == {1, 3}
MaxVals == {0, 1, 255}

\* ------------------------------------------------------------ exact numbers
RECURSIVE GCD(_, _)
GCD(a, b) == IF b = 0 THEN a ELSE GCD(b, a % b)

Abs(n) == IF n < 0 THEN -n ELSE n

\* the rational n/d (d # 0) in lowest terms with a positive denominator
Rat(n, d) ==
    LET g == GCD(Abs(n), Abs(d))
        sg == IF d < 0 THEN -1 ELSE 1
    IN  <<sg * (n \div g), sg * (d \div g)>>

RAdd(a, b) == Rat(a[1] * b[2] + b[1] * a[2], a[2] * b[2])
RMul(a, b) == Rat(a[1] * b[1], a[2] * b[2])
RDivInt(a, n) == Rat(a[1], a[2] * n)

\* the largest k with k*k dividing m (m > 0)
SquarePart(m) ==
    CHOOSE k \in 1..m : /\ m % (k * k) = 0
                        /\ \A j \in (k + 1)..m : m % (j * j) # 0

\* finite values: a set of terms c * sqrt(s), s square-free, one term per s, c # 0
Zero == [kind |-> "fin", t |-> {}]
FromRat(r) == IF r[1] = 0 THEN Zero ELSE [kind |-> "fin", t |-> {[c |-> r, s |-> 1]}]
FromInt(n) == FromRat(Rat(n, 1))
Inf == [kind |-> "inf"]
NaN == [kind |-> "nan"]
\* a finite PSNR: the sum of 10*log10(q) over the bag qs of rationals q > 0, divided by div
Db(qs, div) == [kind |-> "db", qs |-> qs, div |-> div]

IsNaN(v) == v.kind = "nan"
IsRational(v) == v.kind = "fin" /\ \A x \in v.t : x.s = 1
\* the rational a rational value stands for
AsRat(v) == IF v.t = {} THEN <<0, 1>> ELSE (CHOOSE x \in v.t : TRUE).c

Coef(v, s) == IF \E x \in v.t : x.s = s THEN (CHOOSE x \in v.t : x.s = s).c ELSE <<0, 1>>

FinAdd(a, b) ==
    LET ss == {x.s : x \in a.t \cup b.t}
        all == {[c |-> RAdd(Coef(a, s), Coef(b, s)), s |-> s] : s \in ss}
    IN  [kind |-> "fin", t |-> {x \in all : x.c[1] # 0}]

\* IEEE addition of two values of one metric (never +inf with -inf here)
VAdd(a, b) ==
    CASE IsNaN(a) \/ IsNaN(b) -> NaN
      [] a.kind = "inf" \/ b.kind = "inf" -> Inf
      [] a.kind = "db" /\ b.kind = "db" -> Db(a.qs (+) b.qs, 1)
      [] a.kind = "db" -> a
      [] b.kind = "db" -> b
      [] OTHER -> FinAdd(a, b)

VDivInt(a, n) ==
    CASE a.kind = "fin" -> [kind |-> "fin", t |-> {[c |-> RDivInt(x.c, n), s |-> x.s] : x \in a.t}]
      [] a.kind = "db" -> Db(a.qs, a.div * n)
      [] OTHER -> a

\* torch.sqrt of a non-negative rational value: sqrt(n/d) = (k/d) * sqrt(s), n*d = k*k*s
VSqrt(v) ==
    CASE v.kind = "fin" ->
            LET r == AsRat(v)
                m == r[1] * r[2]
            IN  IF m = 0 THEN Zero
                ELSE LET k == SquarePart(m)
                     IN  [kind |-> "fin", t |-> {[c |-> Rat(k, r[2]), s |-> m \div (k * k)]}]
      [] OTHER -> v

RECURSIVE VSum(_)
VSum(seq) == IF Len(seq) = 1 THEN seq[1] ELSE VAdd(seq[1], VSum(Tail(seq)))

\* ------------------------------------------------------------------ tensors
RECURSIVE Prod(_)
Prod(s) == IF Len(s) = 0 THEN 1 ELSE s[1] * Prod(Tail(s))

ShapesOfRank(r) == {s \in [1..r -> 1..MaxNumel] : Prod(s) <= MaxNumel}
Shapes == UNION {ShapesOfRank(r) : r \in 0..MaxRank}

Tensors(s) == {[shape |-> s, data |-> d] : d \in [1..Prod(s) -> Elems]}
Filled(s, e) == [shape |-> s, data |-> [i \in 1..Prod(s) |-> e]]

\* the (y_pred, y) pairs a caller passes: every pair of one shape, and one pair
\* for every two different shapes
TensorPairs ==
    UNION {Tensors(s) \X Tensors(s) : s \in Shapes}
    \cup {<<Filled(ss[1], 1), Filled(ss[2], 3)>> : ss \in {x \in Shapes \X Shapes : x[1] # x[2]}}

\* what the engine's output_transform hands to an adapter
Outputs ==
    {pair \in TensorPairs : /\ Prod(pair[1].shape) <= MaxOutputNumel
                            /\ Prod(pair[2].shape) <= MaxOutputNumel}

\* ---------------------------------------------------------- metric core
MetricClasses == {"MSEMetric", "MAEMetric", "RMSEMetric", "PSNRMetric"}
\* the seven members of MetricReduction, and a string that is none of them
Recognised == {"none", "mean", "sum", "mean_batch", "sum_batch", "mean_channel", "sum_channel"}
Reductions == Recognised \cup {"median"}

Raise(kind) == [ok |-> FALSE, err |-> [type |-> "ValueError", kind |-> kind]]
Value(v) == [ok |-> TRUE, value |-> v]

\* RegressionMetric.__init__ and the subclasses' __init__: the arguments are stored
\* as given, nothing is validated
RegressionMetric_init(cls, reduction) == [cls |-> cls, reduction |-> reduction]
PSNRMetric_init(max_val, reduction) ==
    [cls |-> "PSNRMetric", reduction |-> reduction, max_val |-> max_val]

_check_shape_rank_first(y_pred, y) ==
    IF Len(y_pred.shape) < 2 THEN Raise("InsufficientDimensions")
    ELSE IF y_pred.shape # y.shape THEN Raise("ShapeMismatch")
    ELSE Value("checked")

_check_shape_off_by_one(y_pred, y) ==
    IF y_pred.shape # y.shape THEN Raise("ShapeMismatch")
    ELSE IF Len(y_pred.shape) <= 2 THEN Raise("InsufficientDimensions")
    ELSE Value("checked")

_check_shape(y_pred, y) ==
    IF y_pred.shape # y.shape THEN Raise("ShapeMismatch")
    ELSE IF Len(y_pred.shape) < 2 THEN Raise("InsufficientDimensions")
    ELSE Value("checked")

\* partial(torch.pow, exponent=2.0) and torch.abs, on one element
sq_func(d) == d * d

abs_func_signed(d) == d

abs_func(d) == Abs(d)

\* the differences of two elements, and an elementwise function as a value
Diffs == {a - b : a \in Elems, b \in Elems}
Elementwise_sq == [d \in Diffs |-> sq_func(d)]
Elementwise_abs == [d \in Diffs |-> abs_func(d)]

\* Tensor.float(): float32 holds the elements (small integers) exactly
ToFloat(t) == [shape |-> t.shape, data |-> [i \in DOMAIN t.data |-> t.data[i]]]

RECURSIVE SumInts(_)
SumInts(seq) == IF Len(seq) = 0 THEN 0 ELSE seq[1] + SumInts(Tail(seq))

\* torch.flatten(t, start_dim=1): one row per batch element, row-major
Flatten1(t) ==
    LET B == t.shape[1]
        L == Len(t.data) \div B
    IN  [b \in 1..B |-> SubSeq(t.data, (b - 1) * L + 1, b * L)]

\* func(y - y_pred)
ErrorTensor(y_pred, y, func) ==
    [shape |-> y.shape, data |-> [i \in DOMAIN y.data |-> func[y.data[i] - y_pred.data[i]]]]

compute_mean_error_metrics_sum(y_pred, y, func) ==
    LET rows == Flatten1(ErrorTensor(y_pred, y, func))
    IN  [shape |-> <<Len(rows), 1>>,
         data |-> [b \in 1..Len(rows) |-> FromInt(SumInts(rows[b]))]]

\* torch.mean(flt(func(y - y_pred)), dim=-1, keepdim=True)
compute_mean_error_metrics(y_pred, y, func) ==
    LET rows == Flatten1(ErrorTensor(y_pred, y, func))
    IN  [shape |-> <<Len(rows), 1>>,
         data |-> [b \in 1..Len(rows) |-> FromRat(Rat(SumInts(rows[b]), Len(rows[b])))]]

MSEMetric_compute_metric(self, y_pred, y) ==
    Value(compute_mean_error_metrics(ToFloat(y_pred), ToFloat(y), Elementwise_sq))

MAEMetric_compute_metric(self, y_pred, y) ==
    Value(compute_mean_error_metrics(ToFloat(y_pred), ToFloat(y), Elementwise_abs))

RMSEMetric_compute_metric_no_sqrt(self, y_pred, y) ==
    Value(compute_mean_error_metrics(ToFloat(y_pred), ToFloat(y), Elementwise_sq))

RMSEMetric_compute_metric(self, y_pred, y) ==
    LET mse_out == compute_mean_error_metrics(ToFloat(y_pred), ToFloat(y), Elementwise_sq)
    IN  Value([shape |-> mse_out.shape,
               data |-> [b \in DOMAIN mse_out.data |-> VSqrt(mse_out.data[b])]])

\* 10 * log10(max_val^2 / mse) for mse > 0
PSNRFinite(max_val, mse) ==
    LET q == RMul(Rat(max_val * max_val, 1), <<AsRat(mse)[2], AsRat(mse)[1]>>)
    IN  IF q = <<1, 1>> THEN Zero ELSE Db(SetToBag({q}), 1)

PSNRValue_capped(max_val, mse) ==
    IF mse.t = {} THEN FromInt(100) ELSE PSNRFinite(max_val, mse)

\* 20 * log10(max_val) - 10 * log10(mse) = 10 * log10(max_val^2 / mse); log10(0) = -inf
PSNRValue(max_val, mse) ==
    IF mse.t = {} THEN Inf ELSE PSNRFinite(max_val, mse)

\* math.log10 raises ValueError (math domain error) for max_val <= 0
PSNRMetric_compute_metric(self, y_pred, y) ==
    LET mse_out == compute_mean_error_metrics(ToFloat(y_pred), ToFloat(y), Elementwise_sq)
    IN  IF self.max_val <= 0 THEN Raise("MathDomainError")
        ELSE Value([shape |-> mse_out.shape,
                    data |-> [b \in DOMAIN mse_out.data |-> PSNRValue(self.max_val, mse_out.data[b])]])

\* the abstract method's dispatch
_compute_metric(self, y_pred, y) ==
    CASE self.cls = "MSEMetric" -> MSEMetric_compute_metric(self, y_pred, y)
      [] self.cls = "MAEMetric" -> MAEMetric_compute_metric(self, y_pred, y)
      [] self.cls = "RMSEMetric" -> RMSEMetric_compute_metric(self, y_pred, y)
      [] self.cls = "PSNRMetric" -> PSNRMetric_compute_metric(self, y_pred, y)

\* ------------------------------------------- batch reduction (spec 4.7)
NotNan(v) == IF IsNaN(v) THEN 0 ELSE 1

\* the sum of the non-NaN values among vs (a sequence), zero when there is none
SumNotNan(vs) ==
    LET keep == SelectSeq(vs, LAMBDA v : ~IsNaN(v))
    IN  IF Len(keep) = 0 THEN Zero ELSE VSum(keep)

CountNotNan(vs) == Len(SelectSeq(vs, LAMBDA v : ~IsNaN(v)))

MeanNotNan(vs) ==
    IF CountNotNan(vs) = 0 THEN Zero ELSE VDivInt(SumNotNan(vs), CountNotNan(vs))

\* f is batch x channel, row-major
Column(f, c) == [b \in 1..f.shape[1] |-> f.data[(b - 1) * f.shape[2] + c]]
Row(f, b) == [c \in 1..f.shape[2] |-> f.data[(b - 1) * f.shape[2] + c]]

do_metric_reduction(f, reduction) ==
    CASE reduction = "none" ->
            Value([y |-> f,
                   not_nans |-> [shape |-> f.shape,
                                 data |-> [i \in DOMAIN f.data |-> NotNan(f.data[i])]]])
      [] reduction = "mean" ->
            Value([y |-> [shape |-> <<>>, data |-> <<MeanNotNan(f.data)>>],
                   not_nans |-> [shape |-> <<>>, data |-> <<CountNotNan(f.data)>>]])
      [] reduction = "sum" ->
            Value([y |-> [shape |-> <<>>, data |-> <<SumNotNan(f.data)>>],
                   not_nans |-> [shape |-> <<>>, data |-> <<CountNotNan(f.data)>>]])
      [] reduction = "mean_batch" ->
            Value([y |-> [shape |-> <<f.shape[2]>>,
                          data |-> [c \in 1..f.shape[2] |-> MeanNotNan(Column(f, c))]],
                   not_nans |-> [shape |-> <<f.shape[2]>>,
                                 data |-> [c \in 1..f.shape[2] |-> CountNotNan(Column(f, c))]]])
      [] reduction = "sum_batch" ->
            Value([y |-> [shape |-> <<f.shape[2]>>,
                          data |-> [c \in 1..f.shape[2] |-> SumNotNan(Column(f, c))]],
                   not_nans |-> [shape |-> <<f.shape[2]>>,
                                 data |-> [c \in 1..f.shape[2] |-> CountNotNan(Column(f, c))]]])
      [] reduction = "mean_channel" ->
            Value([y |-> [shape |-> <<f.shape[1]>>,
                          data |-> [b \in 1..f.shape[1] |-> MeanNotNan(Row(f, b))]],
                   not_nans |-> [shape |-> <<f.shape[1]>>,
                                 data |-> [b \in 1..f.shape[1] |-> CountNotNan(Row(f, b))]]])
      [] reduction = "sum_channel" ->
            Value([y |-> [shape |-> <<f.shape[1]>>,
                          data |-> [b \in 1..f.shape[1] |-> SumNotNan(Row(f, b))]],
                   not_nans |-> [shape |-> <<f.shape[1]>>,
                                 data |-> [b \in 1..f.shape[1] |-> CountNotNan(Row(f, b))]]])
      [] OTHER -> Raise("InvalidConfiguration")

_reduce_default(self, f) == do_metric_reduction(f, "mean")

_reduce(self, f) == do_metric_reduction(f, self.reduction)

\* RegressionMetric.__call__: what the call returns or raises, and the steps it started
Raised(r, steps) == [status |-> "raised", err |-> r.err, steps |-> steps]

Call_unreduced(self, y_pred, y) ==
    LET checked == _check_shape(y_pred, y)
    IN  IF ~checked.ok THEN Raised(checked, <<"_check_shape">>)
        ELSE LET out == _compute_metric(self, y_pred, y)
             IN  IF ~out.ok THEN Raised(out, <<"_check_shape", "_compute_metric">>)
                 ELSE [status |-> "returned",
                       y |-> out.value,
                       not_nans |-> [shape |-> out.value.shape,
                                     data |-> [i \in DOMAIN out.value.data |-> 1]],
                       steps |-> <<"_check_shape", "_compute_metric">>]

Call(self, y_pred, y) ==
    LET checked == _check_shape(y_pred, y)
    IN  IF ~checked.ok THEN Raised(checked, <<"_check_shape">>)
        ELSE LET out == _compute_metric(self, y_pred, y)
             IN  IF ~out.ok THEN Raised(out, <<"_check_shape", "_compute_metric">>)
                 ELSE LET red == _reduce(self, out.value)
                      IN  IF ~red.ok
                          THEN Raised(red, <<"_check_shape", "_compute_metric", "_reduce">>)
                          ELSE [status |-> "returned",
                                y |-> red.value.y,
                                not_nans |-> red.value.not_nans,
                                steps |-> <<"_check_shape", "_compute_metric", "_reduce">>]

\* ------------------------------------------------- iteration adapters
\* the names monai/metrics/regression.py defines
RegressionModuleNames ==
    {"RegressionMetric", "MSEMetric", "MAEMetric", "RMSEMetric", "PSNRMetric",
     "compute_mean_error_metrics"}

\* from monai.metrics.regression import ...
ImportedNames ==
    {"MAEMetric", "MSEMetric", "PSNRMetric", "RMSEMetric", "MSEMetricTraining",
     "MAEMetricTraining"}

\* executing the adapter module: the from-import raises ImportError when the metric
\* module lacks one of the names, and then none of the adapter classes is defined
ImportHandlers ==
    IF ImportedNames \subseteq RegressionModuleNames THEN "loaded" ELSE "ImportError"

AdapterClasses ==
    {"MeanSquaredError", "MeanSquaredErrorTraining", "MeanAbsoluteError",
     "MeanAbsoluteErrorTraining", "RootMeanSquaredError", "PeakSignalToNoiseRatio"}

\* the metric class each adapter's __init__ instantiates
MetricOf(cls) ==
    CASE cls = "MeanSquaredError" -> "MSEMetric"
      [] cls = "MeanSquaredErrorTraining" -> "MSEMetricTraining"
      [] cls = "MeanAbsoluteError" -> "MAEMetric"
      [] cls = "MeanAbsoluteErrorTraining" -> "MAEMetricTraining"
      [] cls = "RootMeanSquaredError" -> "RMSEMetric"
      [] cls = "PeakSignalToNoiseRatio" -> "PSNRMetric"

\* the adapters' __init__: metric_fn = <Metric>(reduction=MetricReduction.NONE), handed
\* to IterationMetric.__init__ with save_details
Adapter_init(cls, max_val, save_details) ==
    [status |-> "attached",
     cls |-> cls,
     metric_fn |-> IF cls = "PeakSignalToNoiseRatio"
                   THEN PSNRMetric_init(max_val, "none")
                   ELSE RegressionMetric_init(MetricOf(cls), "none"),
     save_details |-> save_details,
     scores |-> <<>>]

\* what the user's "from monai.handlers.regression_metrics import <cls>; <cls>(...)"
\* leaves behind
NewAdapter(cls, max_val, save_details) ==
    IF ImportHandlers = "loaded"
    THEN Adapter_init(cls, max_val, save_details)
    ELSE [status |-> "failed", cls |-> cls, err |-> "ImportError"]

BatchSize(t) == IF Len(t.shape) = 0 THEN 0 ELSE t.shape[1]

\* ------------------------------------------------------------------- state
VARIABLES metric, y_pred, y, result, adapter, engine

vars == <<metric, y_pred, y, result, adapter, engine>>
core == <<metric, y_pred, y, result>>

NoMetric == [cls |-> "none"]
NoTensor == [shape |-> <<>>, data |-> <<>>]
NoResult == [status |-> "none"]
NoAdapter == [status |-> "none"]
NoOutput == <<NoTensor, NoTensor>>

Init ==
    /\ metric = NoMetric
    /\ y_pred = NoTensor
    /\ y = NoTensor
    /\ result = NoResult
    /\ adapter = NoAdapter
    /\ engine = [running |-> FALSE, iteration |-> 0, samples |-> 0, output |-> NoOutput,
                 metric_details |-> <<>>, error |-> "none"]

\* MSEMetric(reduction), MAEMetric(reduction), RMSEMetric(reduction)
Construct ==
    /\ result = NoResult
    /\ \E cls \in MetricClasses \ {"PSNRMetric"}, reduction \in Reductions :
          metric' = RegressionMetric_init(cls, reduction)
    /\ UNCHANGED <<y_pred, y, result, adapter, engine>>

\* PSNRMetric(max_val, reduction)
ConstructPSNR ==
    /\ result = NoResult
    /\ \E max_val \in MaxVals, reduction \in Reductions :
          metric' = PSNRMetric_init(max_val, reduction)
    /\ UNCHANGED <<y_pred, y, result, adapter, engine>>

\* metric(y_pred, y)
CallMetric ==
    /\ metric # NoMetric
    /\ result = NoResult
    /\ \E pair \in TensorPairs :
          /\ y_pred' = pair[1]
          /\ y' = pair[2]
          /\ result' = Call(metric, pair[1], pair[2])
    /\ UNCHANGED <<metric, adapter, engine>>

\* the caller has taken the result (or the exception); the arguments go out of scope
Release ==
    /\ result # NoResult
    /\ y_pred' = NoTensor
    /\ y' = NoTensor
    /\ result' = NoResult
    /\ UNCHANGED <<metric, adapter, engine>>

Next ==
    \/ Construct
    \/ ConstructPSNR
    \/ CallMetric
    \/ Release

\* the user imports an adapter class, constructs it and attaches it to the engine
Attach ==
    /\ adapter.status # "attached"
    /\ ~engine.running
    /\ \E cls \in AdapterClasses, max_val \in MaxVals, save_details \in BOOLEAN :
          adapter' = NewAdapter(cls, max_val, save_details)
    /\ UNCHANGED <<core, engine>>

\* run start: the accumulator is reset
Started ==
    /\ ~engine.running
    /\ engine' = [running |-> TRUE, iteration |-> 0, samples |-> 0, output |-> NoOutput,
                  metric_details |-> <<>>, error |-> "none"]
    /\ adapter' = IF adapter.status = "attached"
                  THEN [adapter EXCEPT !.scores = <<>>]
                  ELSE adapter
    /\ UNCHANGED core

\* one iteration: the engine's output goes through the attached adapter's metric, the
\* per-sample values are appended to the running sequence and to the detail log; an
\* exception of the metric ends the run
IterationCompleted ==
    /\ engine.running
    /\ engine.iteration < MaxIters
    /\ \E pair \in Outputs :
          LET score == IF adapter.status = "attached"
                       THEN Call(adapter.metric_fn, pair[1], pair[2])
                       ELSE NoResult
          IN  IF score.status = "raised"
              THEN /\ engine' = [engine EXCEPT !.running = FALSE, !.output = pair,
                                               !.error = score.err.kind]
                   /\ UNCHANGED adapter
              ELSE /\ engine' = [engine EXCEPT
                                    !.iteration = @ + 1,
                                    !.samples = @ + BatchSize(pair[1]),
                                    !.output = pair,
                                    !.metric_details =
                                        IF adapter.status = "attached" /\ adapter.save_details
                                        THEN @ \o score.y.data
                                        ELSE @]
                   /\ adapter' = IF adapter.status = "attached"
                                 THEN [adapter EXCEPT !.scores = @ \o score.y.data]
                                 ELSE adapter
    /\ UNCHANGED core

\* run end: the accumulated sequence is handed to the external aggregation
Completed ==
    /\ engine.running
    /\ engine' = [engine EXCEPT !.running = FALSE]
    /\ UNCHANGED <<core, adapter>>

NextHandlers ==
    \/ Attach
    \/ Started
    \/ IterationCompleted
    \/ Completed

Spec == Init /\ [][Next]_vars

SpecHandlers == Init /\ [][NextHandlers]_vars

\* ------------------------------------------------------------------ claims
Called == result # NoResult
Returned == result.status = "returned"
RaisedKind(kind, steps) ==
    /\ result.status = "raised"
    /\ result.err.kind = kind
    /\ result.steps = steps

\* the element of t at a full multi-index idx (batch first), by row-major strides
RECURSIVE Lin(_, _, _)
Lin(idx, shape, n) == IF n = 0 THEN 0 ELSE Lin(idx, shape, n - 1) * shape[n] + (idx[n] - 1)
Element(t, idx) == t.data[Lin(idx, t.shape, Len(t.shape)) + 1]

\* every index of sample b: all channels and all spatial positions
Positions(shape, b) ==
    {idx \in [1..Len(shape) -> 1..MaxNumel] :
        idx[1] = b /\ \A n \in 1..Len(shape) : idx[n] <= shape[n]}

RECURSIVE SumOfErrors(_, _)
SumOfErrors(S, sq) ==
    IF S = {} THEN 0
    ELSE LET idx == CHOOSE x \in S : TRUE
             d == Element(y, idx) - Element(y_pred, idx)
         IN  (IF sq THEN d * d ELSE IF d < 0 THEN -d ELSE d) + SumOfErrors(S \ {idx}, sq)

\* v is the non-negative square root of the rational value m
IsSqrtOf(v, m) ==
    /\ v.kind = "fin"
    /\ IsRational(m)
    /\ IF m.t = {} THEN v.t = {}
       ELSE /\ Cardinality(v.t) = 1
            /\ \A x \in v.t : /\ x.c[1] > 0
                              /\ RMul(RMul(x.c, x.c), <<x.s, 1>>) = AsRat(m)

\* C1: whatever the metric kind and the configured reduction mode, a call with a
\* prediction and a target of different shapes raises ShapeMismatch from the shape
\* check, before the per-sample computation and the reduction start; nothing is returned.
C1_ShapeMismatchFirst ==
    (Called /\ y_pred.shape # y.shape) => RaisedKind("ShapeMismatch", <<"_check_shape">>)

C1_Witness ==
    /\ Called
    /\ y_pred.shape = <<1, 2>>
    /\ y.shape = <<2, 1>>
    /\ metric.cls = "PSNRMetric"
    /\ metric.reduction = "sum_batch"
    /\ RaisedKind("ShapeMismatch", <<"_check_shape">>)

\* C2: with identical shapes of fewer than two dimensions the call raises
\* InsufficientDimensions and returns nothing; with identical shapes of two or more
\* dimensions the shape check raises nothing (the per-sample computation starts).
C2_InsufficientDimensions ==
    (Called /\ y_pred.shape = y.shape) =>
        IF Len(y.shape) < 2
        THEN RaisedKind("InsufficientDimensions", <<"_check_shape">>)
        ELSE Len(result.steps) >= 2

C2_Witness ==
    /\ Called
    /\ y_pred.shape = <<4>>
    /\ y.shape = <<4>>
    /\ RaisedKind("InsufficientDimensions", <<"_check_shape">>)

\* C3: for MSE (f(d) = d*d) and MAE (f(d) = |d|) the per-sample values (seen through
\* reduction none) have shape batch x 1, and the value of sample b is the sum of
\* f(Y[b,i] - P[b,i]) over every channel and spatial index i, divided by their number.
C3_PerSampleMean ==
    (Returned /\ metric.cls \in {"MSEMetric", "MAEMetric"} /\ metric.reduction = "none") =>
        /\ result.y.shape = <<y.shape[1], 1>>
        /\ Len(result.y.data) = y.shape[1]
        /\ \A b \in 1..y.shape[1] :
              LET P == Positions(y.shape, b)
                  v == result.y.data[b]
              IN  /\ IsRational(v)
                  /\ AsRat(v)[1] * Cardinality(P)
                        = SumOfErrors(P, metric.cls = "MSEMetric") * AsRat(v)[2]

C3_Witness ==
    /\ Returned
    /\ metric = [cls |-> "MSEMetric", reduction |-> "none"]
    /\ y_pred = Filled(<<1, 1, 2, 2>>, 1)
    /\ y = Filled(<<1, 1, 2, 2>>, 3)
    /\ result.y.data = <<FromInt(4)>>

\* C4: MSE and MAE are symmetric: the call with the arguments swapped returns the same
\* aggregated value and the same not-NaN count, under every reduction mode.
C4_Symmetry ==
    (Returned /\ metric.cls \in {"MSEMetric", "MAEMetric"}) =>
        LET swapped == Call(metric, y, y_pred)
        IN  /\ swapped.status = "returned"
            /\ swapped.y = result.y
            /\ swapped.not_nans = result.not_nans

C4_Witness ==
    /\ Returned
    /\ metric = [cls |-> "MAEMetric", reduction |-> "mean"]
    /\ y_pred = [shape |-> <<2, 2>>, data |-> <<1, 1, 3, 1>>]
    /\ y = [shape |-> <<2, 2>>, data |-> <<3, 1, 1, 1>>]
    /\ result.y.data = <<FromInt(1)>>

\* the value an MSE metric of the same reduction mode returns for the same arguments
MSEOfCall == Call(RegressionMetric_init("MSEMetric", metric.reduction), y_pred, y)

RootOfMSE ==
    /\ MSEOfCall.status = "returned"
    /\ result.y.shape = MSEOfCall.y.shape
    /\ \A i \in DOMAIN result.y.data : IsSqrtOf(result.y.data[i], MSEOfCall.y.data[i])

\* C5 as stated: under every reduction mode and batch size, the value RMSE returns is
\* the square root of the value MSE returns.
C5_Original == (Returned /\ metric.cls = "RMSEMetric") => RootOfMSE

\* C5 as amended: the value RMSE returns is the square root of the value MSE returns
\* under the same reduction mode when that mode keeps the samples apart (none,
\* mean_channel, sum_channel) or the batch holds one sample.
C5_RootOfMSEPerSample ==
    (/\ Returned
     /\ metric.cls = "RMSEMetric"
     /\ \/ metric.reduction \in {"none", "mean_channel", "sum_channel"}
        \/ y.shape[1] = 1) => RootOfMSE

C5_Witness ==
    /\ Returned
    /\ metric = [cls |-> "RMSEMetric", reduction |-> "none"]
    /\ y_pred = [shape |-> <<2, 1>>, data |-> <<1, 1>>]
    /\ y = [shape |-> <<2, 1>>, data |-> <<1, 3>>]
    /\ result.y.data = <<Zero, FromInt(2)>>
    /\ MSEOfCall.y.data = <<Zero, FromInt(4)>>

AllInfinite == Returned /\ \A i \in DOMAIN result.y.data : result.y.data[i] = Inf

\* C6 as stated: for every max_val a PSNR metric is constructed with, PSNR of P with
\* itself is +infinity for every sample, without an error.
C6_Original ==
    (/\ Called
     /\ metric.cls = "PSNRMetric"
     /\ metric.reduction \in Recognised
     /\ y_pred = y
     /\ Len(y.shape) >= 2) => AllInfinite

\* C6 as amended: for every positive max_val, PSNR of P with itself is +infinity for
\* every sample, without an error (the zero MSE is neither special-cased nor clamped).
C6_InfiniteForPositiveMaxVal ==
    (/\ Called
     /\ metric.cls = "PSNRMetric"
     /\ metric.max_val > 0
     /\ metric.reduction \in Recognised
     /\ y_pred = y
     /\ Len(y.shape) >= 2) => AllInfinite

C6_Witness ==
    /\ metric = [cls |-> "PSNRMetric", reduction |-> "none", max_val |-> 255]
    /\ y_pred = [shape |-> <<2, 2>>, data |-> <<1, 3, 3, 1>>]
    /\ y = y_pred
    /\ Returned
    /\ result.y.data = <<Inf, Inf>>

\* C7: with reduction none the call returns the per-sample values unchanged, in batch
\* order, and a not-NaN count of 1 for every non-NaN element.
C7_NoneReturnsPerSample ==
    (Returned /\ metric.reduction = "none") =>
        /\ result.y = _compute_metric(metric, y_pred, y).value
        /\ Len(result.y.data) = y.shape[1]
        /\ result.not_nans.shape = result.y.shape
        /\ \A i \in DOMAIN result.y.data :
              result.not_nans.data[i] = IF result.y.data[i] = NaN THEN 0 ELSE 1

C7_Witness ==
    /\ Returned
    /\ metric = [cls |-> "MAEMetric", reduction |-> "none"]
    /\ y_pred = Filled(<<2, 2>>, 1)
    /\ y = [shape |-> <<2, 2>>, data |-> <<1, 3, 3, 3>>]
    /\ result.y.data = <<FromInt(1), FromInt(2)>>
    /\ result.not_nans.data = <<1, 1>>

\* C8 as stated: a metric with an unrecognised reduction mode fails every call with
\* InvalidConfiguration and no other error, whatever the inputs.
C8_Original ==
    (Called /\ metric.reduction \notin Recognised) =>
        (result.status = "raised" /\ result.err.kind = "InvalidConfiguration")

\* C8 as amended: construction accepts the unrecognised mode; no call returns a
\* result: it raises the shape check's error when the inputs fail it, the per-sample
\* computation's error when that raises (PSNR with max_val <= 0), and otherwise
\* InvalidConfiguration from the reduction, after the per-sample computation.
C8_UnrecognisedNeverReturns ==
    (Called /\ metric.reduction \notin Recognised) =>
        IF y_pred.shape # y.shape THEN RaisedKind("ShapeMismatch", <<"_check_shape">>)
        ELSE IF Len(y.shape) < 2
             THEN RaisedKind("InsufficientDimensions", <<"_check_shape">>)
        ELSE IF metric.cls = "PSNRMetric" /\ metric.max_val <= 0
             THEN RaisedKind("MathDomainError", <<"_check_shape", "_compute_metric">>)
        ELSE RaisedKind("InvalidConfiguration",
                        <<"_check_shape", "_compute_metric", "_reduce">>)

C8_Witness ==
    /\ metric = [cls |-> "MSEMetric", reduction |-> "median"]
    /\ y_pred = Filled(<<1, 2>>, 1)
    /\ y = Filled(<<1, 2>>, 3)
    /\ RaisedKind("InvalidConfiguration", <<"_check_shape", "_compute_metric", "_reduce">>)

\* C9: once the user has asked for an adapter and iterations have completed, the adapter
\* exists with a metric of reduction none, its running sequence holds one value per
\* sample of the completed iterations, and the detail log holds them when enabled.
C9_RunningSequence ==
    (adapter.status # "none" /\ engine.iteration > 0) =>
        /\ adapter.status = "attached"
        /\ adapter.metric_fn.reduction = "none"
        /\ Len(adapter.scores) = engine.samples
        /\ adapter.save_details => engine.metric_details = adapter.scores

\* C10: the metric classes the adapter layer imports and instantiates are classes the
\* metric core defines, so the adapter the user asked for is constructed.
C10_AdaptersConstructible ==
    adapter.status # "none" =>
        /\ {MetricOf(cls) : cls \in AdapterClasses} \subseteq ImportedNames
        /\ ImportedNames \subseteq RegressionModuleNames
        /\ adapter.status = "attached"

====
